---- MODULE Spec2Model ----
(***************************************************************************)
(* Model of src/src/preprocess.py: the deterministic text preprocessing    *)
(* pipeline preprocess() and the sentence splitter split_sentences().      *)
(*                                                                         *)
(* A text is a sequence of Unicode code points (naturals), so that the     *)
(* character classes of the regular expressions are the ranges the source  *)
(* writes ([A-Z] is 65..90, [U+0410-U+042F] is 1040..1071, ...).  Every    *)
(* regular expression is modelled by a matcher MatchEnd(t, i): the index   *)
(* one past the end of the match that starts at index i of t, or 0 when    *)
(* there is none, computed in the order Python's backtracking matcher      *)
(* tries the alternatives; re.sub is the leftmost, non-overlapping scan.   *)
(***************************************************************************)
EXTENDS Integers, Sequences, FiniteSets, TLC

(***************************************************************************)
(* Characters                                                              *)
(***************************************************************************)
Period == 46
Space == 32
Pipe == 124
Quote == 34
Apostrophe == 39
Hyphen == 45
AtSign == 64
LParen == 40
RParen == 41
Ellipsis == 8230
LeftGuillemet == 171

\* "<DOT>", the sentinel of split_sentences
DOT == <<60, 68, 79, 84, 62>>
\* "<EMAIL>" and "<URL>", the placeholders of mask_pii
EMAIL_TOKEN == <<60, 69, 77, 65, 73, 76, 62>>
URL_TOKEN == <<60, 85, 82, 76, 62>>

\* [U+00AB U+00BB U+201C U+201D U+201E]
QUOTES_PATTERN == {171, 187, 8220, 8221, 8222}
\* [U+2014 U+2013]
DASHES_PATTERN == {8212, 8211}
\* [` U+2019 U+2018 U+02BC]
APOSTROPHES_PATTERN == {96, 8217, 8216, 700}

\* \s of a str pattern, which is also what str.strip() strips
IsSpace(c) ==
    c \in {9, 10, 11, 12, 13, 28, 29, 30, 31, 32, 133, 160, 5760,
           8232, 8233, 8239, 8287, 12288} \cup (8192..8202)

\* \d, on the ASCII digits
IsDigit(c) == c \in 48..57

\* \w, on ASCII, the modifier apostrophe U+02BC and the Cyrillic blocks
IsWord(c) ==
    \/ c \in 48..57
    \/ c \in 65..90
    \/ c = 95
    \/ c \in 97..122
    \/ c = 700
    \/ c \in 1024..1153
    \/ c \in 1162..1327

\* [U+0410-U+042F U+0406 U+0407 U+0404 U+0490], the Ukrainian capitals
IsUpperCyr(c) == c \in 1040..1071 \/ c \in {1030, 1031, 1028, 1168}

\* [U+0430-U+044F U+0456 U+0457 U+0454 U+0491], the Ukrainian small letters
IsLowerCyr(c) == c \in 1072..1103 \/ c \in {1110, 1111, 1108, 1169}

\* [U+0410-U+042F U+0406 U+0407 U+0404 U+0490 A-Z]
IsUpper(c) == IsUpperCyr(c) \/ c \in 65..90

\* [.!? U+2026]
IsTerminal(c) == c \in {Period, 33, 63, Ellipsis}

\* [capitals 0-9 " U+00AB], the lookahead of the split pattern
IsSentenceStart(c) == IsUpper(c) \/ c \in 48..57 \/ c \in {Quote, LeftGuillemet}

\* the simple case folding re.IGNORECASE compares with
Lower(c) ==
    IF c \in 65..90 THEN c + 32
    ELSE IF c \in 1040..1071 THEN c + 32
    ELSE IF c \in 1024..1039 THEN c + 80
    ELSE IF c = 1168 THEN 1169
    ELSE c

(***************************************************************************)
(* Sequences                                                               *)
(***************************************************************************)
At(t, i) == IF i >= 1 /\ i <= Len(t) THEN t[i] ELSE 0

Slice(t, i, j) == IF j < i THEN <<>> ELSE SubSeq(t, i, j)

\* t[i:] starts with the literal lit
StartsAt(t, i, lit) ==
    /\ i >= 1
    /\ i + Len(lit) - 1 <= Len(t)
    /\ \A k \in 1..Len(lit) : t[i + k - 1] = lit[k]

\* the same, ignoring case
StartsAtCI(t, i, lit) ==
    /\ i >= 1
    /\ i + Len(lit) - 1 <= Len(t)
    /\ \A k \in 1..Len(lit) : Lower(t[i + k - 1]) = Lower(lit[k])

\* lit occurs in t
Contains(t, lit) == \E i \in 1..Len(t) : StartsAt(t, i, lit)

\* \b at index i: between t[i-1] and t[i]
WordBoundary(t, i) == IsWord(At(t, i - 1)) # IsWord(At(t, i))

\* the least element of a non-empty set of numbers
Min(S) == CHOOSE m \in S : \A o \in S : m <= o

\* the index one past the longest run of characters satisfying P from i
RunEnd(P(_), t, i) ==
    IF i > Len(t) THEN i
    ELSE Min({j \in i..(Len(t) + 1) : j = Len(t) + 1 \/ ~P(t[j])})

\* str.strip()
RECURSIVE LStrip(_)
LStrip(t) == IF t # <<>> /\ IsSpace(Head(t)) THEN LStrip(Tail(t)) ELSE t

RECURSIVE RStrip(_)
RStrip(t) ==
    IF t # <<>> /\ IsSpace(t[Len(t)]) THEN RStrip(SubSeq(t, 1, Len(t) - 1)) ELSE t

Strip(t) == RStrip(LStrip(t))

\* the index of the leftmost match at or after index i, or 0
NextMatch(MatchEnd(_, _), t, i) ==
    LET at == {j \in i..Len(t) : MatchEnd(t, j) > 0}
    IN  IF at = {} THEN 0 ELSE Min(at)

\* re.sub: from index i, copy the text up to the leftmost match, emit the
\* replacement and continue after the match
RECURSIVE SubFrom(_, _, _, _)
SubFrom(MatchEnd(_, _), Repl(_, _, _), t, i) ==
    LET j == NextMatch(MatchEnd, t, i)
    IN  IF j = 0 THEN Slice(t, i, Len(t))
        ELSE Slice(t, i, j - 1) \o Repl(t, j, MatchEnd(t, j))
               \o SubFrom(MatchEnd, Repl, t, MatchEnd(t, j))

Sub(MatchEnd(_, _), Repl(_, _, _), t) == SubFrom(MatchEnd, Repl, t, 1)

\* the pattern matches somewhere in t
Matches(MatchEnd(_, _), t) == \E i \in 1..Len(t) : MatchEnd(t, i) > 0

\* str.join
RECURSIVE Join(_, _)
Join(sep, ss) ==
    IF ss = <<>> THEN <<>>
    ELSE IF Len(ss) = 1 THEN ss[1]
    ELSE ss[1] \o sep \o Join(sep, Tail(ss))

(***************************************************************************)
(* split_sentences                                                         *)
(***************************************************************************)
\* the alternatives of UA_ABBREVIATIONS, in the order of the pattern:
\* m, vul, prosp, prov, bul, bud, kv, r, rr, im, o, st, tys, mln, mlrd,
\* dyv, s, smt, obl, t\.d, t\.p (in Cyrillic)
UA_ABBREVIATIONS ==
    << <<1084>>, <<1074, 1091, 1083>>, <<1087, 1088, 1086, 1089, 1087>>,
       <<1087, 1088, 1086, 1074>>, <<1073, 1091, 1083>>, <<1073, 1091, 1076>>,
       <<1082, 1074>>, <<1088>>, <<1088, 1088>>, <<1110, 1084>>, <<1086>>,
       <<1089, 1090>>, <<1090, 1080, 1089>>, <<1084, 1083, 1085>>,
       <<1084, 1083, 1088, 1076>>, <<1076, 1080, 1074>>, <<1089>>,
       <<1089, 1084, 1090>>, <<1086, 1073, 1083>>, <<1090, 46, 1076>>,
       <<1090, 46, 1087>> >>

\* a variant of AbbrevAlt that compares the tokens case-sensitively, as the
\* pattern would without its (?i) flag
AbbrevAltCaseSensitive(t, i) ==
    LET ok == {k \in 1..Len(UA_ABBREVIATIONS) :
                 /\ StartsAt(t, i, UA_ABBREVIATIONS[k])
                 /\ At(t, i + Len(UA_ABBREVIATIONS[k])) = Period}
    IN  IF ok = {} THEN 0 ELSE Min(ok)

\* (?i)\b(tok1|tok2|...)\. at index i: the first alternative, in order,
\* that is followed by a period
AbbrevAlt(t, i) ==
    LET ok == {k \in 1..Len(UA_ABBREVIATIONS) :
                 /\ StartsAtCI(t, i, UA_ABBREVIATIONS[k])
                 /\ At(t, i + Len(UA_ABBREVIATIONS[k])) = Period}
    IN  IF ok = {} THEN 0 ELSE Min(ok)

AbbrevMatchEnd(t, i) ==
    IF WordBoundary(t, i) /\ AbbrevAlt(t, i) > 0
    THEN i + Len(UA_ABBREVIATIONS[AbbrevAlt(t, i)]) + 1
    ELSE 0

\* r'\1<DOT>': the token as written, then the sentinel
AbbrevRepl(t, i, e) == Slice(t, i, e - 2) \o DOT

\* re.sub(UA_ABBREVIATIONS, r'\1<DOT>', text)
ProtectAbbreviations(t) == Sub(AbbrevMatchEnd, AbbrevRepl, t)

\* (\d)\.(\d) at index i
DecimalMatchEnd(t, i) ==
    IF IsDigit(At(t, i)) /\ At(t, i + 1) = Period /\ IsDigit(At(t, i + 2))
    THEN i + 3
    ELSE 0

\* r'\1<DOT>\2'
DecimalRepl(t, i, e) == <<t[i]>> \o DOT \o <<t[i + 2]>>

\* re.sub(r'(\d)\.(\d)', r'\1<DOT>\2', protected_text)
ProtectDecimals(t) == Sub(DecimalMatchEnd, DecimalRepl, t)

\* a variant of InitialMatchEnd whose class holds the Latin capitals only
InitialMatchEndLatinOnly(t, i) ==
    IF WordBoundary(t, i) /\ At(t, i) \in 65..90 /\ At(t, i + 1) = Period
    THEN i + 2
    ELSE 0

\* \b([capital])\. at index i
InitialMatchEnd(t, i) ==
    IF WordBoundary(t, i) /\ IsUpper(At(t, i)) /\ At(t, i + 1) = Period
    THEN i + 2
    ELSE 0

\* r'\1<DOT>'
InitialRepl(t, i, e) == <<t[i]>> \o DOT

\* re.sub(r'\b([capital])\.', r'\1<DOT>', protected_text)
ProtectInitials(t) == Sub(InitialMatchEnd, InitialRepl, t)

\* (?<=[.!? U+2026])\s+(?=[capital 0-9 " U+00AB]) at index i: the greedy
\* \s+ takes the whole run of whitespace (a shorter run is followed by
\* whitespace, which the lookahead refuses)
SplitMatchEnd(t, i) ==
    LET e == RunEnd(IsSpace, t, i)
    IN  IF /\ IsTerminal(At(t, i - 1))
           /\ e > i
           /\ IsSentenceStart(At(t, e))
        THEN e
        ELSE 0

\* re.split: the pieces between the matches, from index i
RECURSIVE SplitFrom(_, _)
SplitFrom(t, i) ==
    LET j == NextMatch(SplitMatchEnd, t, i)
    IN  IF j = 0 THEN <<Slice(t, i, Len(t))>>
        ELSE <<Slice(t, i, j - 1)>> \o SplitFrom(t, SplitMatchEnd(t, j))

ReSplit(t) == SplitFrom(t, 1)

\* '<DOT>' at index i, for str.replace
SentinelMatchEnd(t, i) == IF StartsAt(t, i, DOT) THEN i + Len(DOT) ELSE 0

SentinelRepl(t, i, e) == <<Period>>

\* s.replace('<DOT>', '.').strip()
Restore(s) == Strip(Sub(SentinelMatchEnd, SentinelRepl, s))

\* the loop of step 3: restore, strip, keep the non-empty
RECURSIVE RestoreAll(_)
RestoreAll(raw) ==
    IF raw = <<>> THEN <<>>
    ELSE LET r == Restore(Head(raw))
         IN  (IF r # <<>> THEN <<r>> ELSE <<>>) \o RestoreAll(Tail(raw))


(***************************************************************************)
(* The stages of preprocess                                                *)
(***************************************************************************)
\* ftfy.fix_text on text that is not mis-encoded: the library (not code
\* of this repository) leaves it as it is, except that its default
\* configuration uncurls the curly quotes U+2018 U+2019 U+201C U+201D
UncurlChar(c) ==
    IF c \in {8216, 8217} THEN Apostrophe
    ELSE IF c \in {8220, 8221} THEN Quote
    ELSE c

UncurlQuotes(t) == [i \in 1..Len(t) |-> UncurlChar(t[i])]

\* the results fix_encoding may give for t
fix_encoding(t) == {t, UncurlQuotes(t)}

\* ^\([Capital][small]+\)\s*-\s* at the start of t: the index one past
\* the match, or 0
DatelineMatchEnd(t) ==
    LET l == RunEnd(IsLowerCyr, t, 3)
        h == RunEnd(IsSpace, t, l + 1)
    IN  IF /\ At(t, 1) = LParen
           /\ IsUpperCyr(At(t, 2))
           /\ l > 3
           /\ At(t, l) = RParen
           /\ At(t, h) = Hyphen
        THEN RunEnd(IsSpace, t, h + 1)
        ELSE 0

\* re.sub(r'^\(...\)\s*-\s*', '', text)
clean_news_artifacts(t) ==
    IF DatelineMatchEnd(t) > 0 THEN Slice(t, DatelineMatchEnd(t), Len(t)) ELSE t

TypographyChar(c) ==
    IF c \in APOSTROPHES_PATTERN THEN Apostrophe
    ELSE IF c \in QUOTES_PATTERN THEN Quote
    ELSE IF c \in DASHES_PATTERN THEN Hyphen
    ELSE c

\* the three character-class substitutions, whose classes and
\* replacements are disjoint
normalize_typography(t) == [i \in 1..Len(t) |-> TypographyChar(t[i])]

\* a variant of ReplacePipes that deletes the pipes: clean.replace('|', '')
DeletePipes(t) == SelectSeq(t, LAMBDA c : c # Pipe)

\* clean.replace('|', ' ')
ReplacePipes(t) == [i \in 1..Len(t) |-> IF t[i] = Pipe THEN Space ELSE t[i]]

IsQuote(c) == c = Quote

\* ""+ at index i
QuoteRunMatchEnd(t, i) ==
    IF At(t, i) = Quote /\ At(t, i + 1) = Quote THEN RunEnd(IsQuote, t, i) ELSE 0

QuoteRunRepl(t, i, e) == <<Quote>>

\* re.sub(r'""+', '"', clean)
CollapseQuotes(t) == Sub(QuoteRunMatchEnd, QuoteRunRepl, t)

\* the platform-noise phrase of step 6, 37 characters, in lower case:
\* "posmotret' etu publikatsiyu v instagram" (in Cyrillic, then Latin)
NOISE_PHRASE ==
    <<1087, 1086, 1089, 1084, 1086, 1090, 1088, 1077, 1090, 1100, 32,
      1101, 1090, 1091, 32, 1087, 1091, 1073, 1083, 1080, 1082, 1072,
      1094, 1080, 1102, 32, 1074, 32, 105, 110, 115, 116, 97, 103, 114,
      97, 109>>

NoiseMatchEnd(t, i) ==
    IF StartsAtCI(t, i, NOISE_PHRASE) THEN i + Len(NOISE_PHRASE) ELSE 0

NoiseRepl(t, i, e) == <<>>

\* re.sub(phrase, '', clean, flags=re.IGNORECASE)
RemoveNoise(t) == Sub(NoiseMatchEnd, NoiseRepl, t)

\* [A-Za-z0-9._%+-]
IsEmailLocal(c) ==
    c \in 65..90 \/ c \in 97..122 \/ c \in 48..57 \/ c \in {46, 95, 37, 43, 45}

\* [A-Za-z0-9.-]
IsEmailDomain(c) == c \in 65..90 \/ c \in 97..122 \/ c \in 48..57 \/ c \in {46, 45}

\* [A-Z|a-z]
IsEmailTld(c) == c \in 65..90 \/ c \in 97..122 \/ c = Pipe

\* \b[local]+@[domain]+\.[tld]{2,7}\b at index i.  The local part is the
\* run up to the @ (the class has no @).  The greedy domain is tried
\* longest first, then the greedy TLD longest first: the match is the one
\* with the rightmost final period d, then the longest TLD.
EmailMatchEnd(t, i) ==
    LET a == RunEnd(IsEmailLocal, t, i)
        ends == {de \in ((a + 2)..Len(t)) \X ((a + 5)..(Len(t) + 1)) :
                   /\ RunEnd(IsEmailDomain, t, a + 1) >= de[1]
                   /\ t[de[1]] = Period
                   /\ de[2] - de[1] - 1 \in 2..7
                   /\ RunEnd(IsEmailTld, t, de[1] + 1) >= de[2]
                   /\ WordBoundary(t, de[2])}
        best == CHOOSE de \in ends : \A o \in ends :
                   \/ o[1] < de[1]
                   \/ (o[1] = de[1] /\ o[2] <= de[2])
    IN  IF /\ WordBoundary(t, i)
           /\ a > i
           /\ At(t, a) = AtSign
           /\ ends # {}
        THEN best[2]
        ELSE 0

EmailRepl(t, i, e) == EMAIL_TOKEN

IsNonSpace(c) == ~IsSpace(c)

\* "http", "s", "://", "www.", "bit.ly/"
HTTP == <<104, 116, 116, 112>>
COLON_SLASHES == <<58, 47, 47>>
WWW == <<119, 119, 119, 46>>
BITLY == <<98, 105, 116, 46, 108, 121, 47>>

\* a variant of UrlPrefixEnd without the www\. alternative
UrlPrefixEndNoWww(t, i) ==
    IF StartsAt(t, i, HTTP \o <<115>> \o COLON_SLASHES) THEN i + 8
    ELSE IF StartsAt(t, i, HTTP \o COLON_SLASHES) THEN i + 7
    ELSE IF StartsAt(t, i, BITLY) THEN i + 7
    ELSE 0

\* the index one past the fixed prefix of the alternative that matches at
\* i (https?://, www\., bit\.ly/), or 0
UrlPrefixEnd(t, i) ==
    IF StartsAt(t, i, HTTP \o <<115>> \o COLON_SLASHES) THEN i + 8
    ELSE IF StartsAt(t, i, HTTP \o COLON_SLASHES) THEN i + 7
    ELSE IF StartsAt(t, i, WWW) THEN i + 4
    ELSE IF StartsAt(t, i, BITLY) THEN i + 7
    ELSE 0

\* https?://\S+|www\.\S+|bit\.ly/\S+ at index i
UrlMatchEnd(t, i) ==
    LET p == UrlPrefixEnd(t, i)
    IN  IF p > 0 /\ RunEnd(IsNonSpace, t, p) > p
        THEN RunEnd(IsNonSpace, t, p)
        ELSE 0

UrlRepl(t, i, e) == URL_TOKEN

\* EMAIL_PATTERN.sub('<EMAIL>', text)
MaskEmails(t) == Sub(EmailMatchEnd, EmailRepl, t)

\* URL_PATTERN.sub('<URL>', text)
MaskUrls(t) == Sub(UrlMatchEnd, UrlRepl, t)

mask_pii(t) == MaskUrls(MaskEmails(t))

\* \s+ at index i
SpaceRunMatchEnd(t, i) == IF IsSpace(At(t, i)) THEN RunEnd(IsSpace, t, i) ELSE 0

SpaceRunRepl(t, i, e) == <<Space>>

\* a variant of clean_whitespace that does not strip
CollapseWhitespaceOnly(t) == Sub(SpaceRunMatchEnd, SpaceRunRepl, t)

\* re.sub(r'\s+', ' ', text).strip()
clean_whitespace(t) == Strip(Sub(SpaceRunMatchEnd, SpaceRunRepl, t))


(***************************************************************************)
(* Values: the argument of preprocess is any Python value.  A value is a   *)
(* record of its type and its content: the code points of a str, the       *)
(* number of an int or bool, the numbers of a list, nothing for None.      *)
(***************************************************************************)
StrValue(t) == [kind |-> "str", val |-> t]
NoneValue == [kind |-> "NoneType", val |-> <<>>]
IntValue(n) == [kind |-> "int", val |-> <<n>>]
BoolValue(b) == [kind |-> "bool", val |-> <<IF b THEN 1 ELSE 0>>]
ListValue(ns) == [kind |-> "list", val |-> ns]

\* bool(v): the truth value the conditional expression of line 89 tests
Truthy(v) ==
    CASE v.kind = "str" -> v.val # <<>>
      [] v.kind = "NoneType" -> FALSE
      [] v.kind = "int" -> v.val[1] # 0
      [] v.kind = "bool" -> v.val[1] # 0
      [] v.kind = "list" -> v.val # <<>>

\* the decimal digits of a natural number
RECURSIVE Digits(_)
Digits(n) == IF n < 10 THEN <<48 + n>> ELSE Digits(n \div 10) \o <<48 + (n % 10)>>

\* ", ".join of the numbers of a list
RECURSIVE ListItems(_)
ListItems(ns) ==
    IF ns = <<>> THEN <<>>
    ELSE IF Len(ns) = 1 THEN Digits(ns[1])
    ELSE Digits(ns[1]) \o <<44, 32>> \o ListItems(Tail(ns))

\* str(v)
PyStr(v) ==
    CASE v.kind = "str" -> v.val
      [] v.kind = "NoneType" -> <<78, 111, 110, 101>>
      [] v.kind = "int" -> Digits(v.val[1])
      [] v.kind = "bool" -> IF v.val[1] = 1 THEN <<84, 114, 117, 101>>
                            ELSE <<70, 97, 108, 115, 101>>
      [] v.kind = "list" -> <<91>> \o ListItems(v.val) \o <<93>>

\* not isinstance(text, str) or not text.strip()
Unusable(v) == v.kind # "str" \/ Strip(v.val) = <<>>


(***************************************************************************)
(* Inputs: the texts of the documented examples, and every text built      *)
(* from at most MaxChunks pieces of a small alphabet of pieces.            *)
(***************************************************************************)
MaxChunks == 4

\* every concatenation of at most n pieces of the alphabet
RECURSIVE Texts(_, _)
Texts(alphabet, n) ==
    IF n = 0 THEN {<<>>}
    ELSE LET shorter == Texts(alphabet, n - 1)
         IN  shorter \cup {t \o c : t \in shorter, c \in alphabet}

\* "Zustrich vidbudet'sya u m. L'viv. Vsi radi." (in Cyrillic)
EXAMPLE_ABBREVIATION ==
    <<1047, 1091, 1089, 1090, 1088, 1110, 1095, 32, 1074, 1110, 1076,
      1073, 1091, 1076, 1077, 1090, 1100, 1089, 1103, 32, 1091, 32,
      1084, 46, 32, 1051, 1100, 1074, 1110, 1074, 46, 32, 1042, 1089,
      1110, 32, 1088, 1072, 1076, 1110, 46>>

\* "Pro tse zayavyv V.O. Zelens'kyy. Vin dodav detali." (in Cyrillic)
EXAMPLE_INITIALS ==
    <<1055, 1088, 1086, 32, 1094, 1077, 32, 1079, 1072, 1103, 1074,
      1080, 1074, 32, 1042, 46, 1054, 46, 32, 1047, 1077, 1083, 1077,
      1085, 1089, 1100, 1082, 1080, 1081, 46, 32, 1042, 1110, 1085,
      32, 1076, 1086, 1076, 1072, 1074, 32, 1076, 1077, 1090, 1072,
      1083, 1110, 46>>

\* "Rist sklav 15.5%. Tse rekord." (in Cyrillic)
EXAMPLE_DECIMAL ==
    <<1056, 1110, 1089, 1090, 32, 1089, 1082, 1083, 1072, 1074, 32,
      49, 53, 46, 53, 37, 46, 32, 1062, 1077, 32, 1088, 1077, 1082,
      1086, 1088, 1076, 46>>

\* "done. end"
EXAMPLE_FALLBACK == <<100, 111, 110, 101, 46, 32, 101, 110, 100>>

\* "(Kyiv) - Povidomlyayet'sya." (in Cyrillic)
EXAMPLE_DATELINE ==
    <<40, 1050, 1080, 1111, 1074, 41, 32, 45, 32, 1055, 1086, 1074,
      1110, 1076, 1086, 1084, 1083, 1103, 1108, 1090, 1100, 1089,
      1103, 46>>

\* "v1.2.3 Far"
EXAMPLE_VERSION == <<118, 49, 46, 50, 46, 51, 32, 70, 97, 114>>

\* the text of the local check at the end of the file
test_text ==
    <<40, 1050, 1080, 1111, 1074, 41, 32, 45, 32, 1050, 1086, 1084,
      1087, 1072, 1085, 1110, 1103, 32, 171, 73, 84, 45, 78, 101,
      119, 115, 187, 32, 1087, 1086, 1074, 1110, 1076, 1086, 1084,
      1083, 1103, 1108, 58, 32, 1091, 32, 50, 48, 50, 52, 32, 1088,
      46, 32, 1086, 1095, 1110, 1082, 1091, 1108, 1090, 1100, 1089,
      1103, 32, 1088, 1110, 1089, 1090, 32, 1085, 1072, 32, 49, 53,
      46, 53, 37, 46, 32, 1055, 1080, 1096, 1110, 1090, 1100, 32,
      1085, 1072, 32, 105, 110, 102, 111, 64, 110, 101, 119, 115, 46,
      117, 97, 32, 1072, 1073, 1086, 32, 1079, 1072, 1093, 1086,
      1076, 1100, 1090, 1077, 32, 1085, 1072, 32, 104, 116, 116, 112,
      58, 47, 47, 110, 101, 119, 115, 46, 117, 97, 33, 32, 1055,
      1088, 1086, 32, 1094, 1077, 32, 1079, 1072, 1103, 1074, 1080,
      1074, 32, 1042, 46, 1054, 46, 32, 1047, 1077, 1083, 1077, 1085,
      1089, 1100, 1082, 1080, 1081, 32, 1091, 32, 1084, 46, 32, 1051,
      1100, 1074, 1110, 1074, 46>>

Examples ==
    {EXAMPLE_ABBREVIATION, EXAMPLE_INITIALS, EXAMPLE_DECIMAL, EXAMPLE_FALLBACK,
     EXAMPLE_DATELINE, EXAMPLE_VERSION, test_text}

\* the values that are not usable text, and the values near them
Degenerate ==
    {NoneValue, IntValue(0), IntValue(5), IntValue(10), BoolValue(FALSE),
     BoolValue(TRUE), ListValue(<<>>), ListValue(<<0>>), ListValue(<<1, 2>>),
     StrValue(<<>>), StrValue(<<Space>>), StrValue(<<9, Space, 10>>)}

\* pieces for sentence splitting: the abbreviation "m", the abbreviation
\* "St" with a capital, the capital "V", the small "a" (Cyrillic), a
\* period, a space
SegChunks == {<<1084>>, <<1057, 1090>>, <<1042>>, <<1072>>, <<Period>>, <<Space>>}

\* pieces for numbers and the sentinel: a digit, a period, the literal
\* text "<DOT>", a space, the capital "V"
NumChunks == {<<49>>, <<Period>>, DOT, <<Space>>, <<1042>>}

\* pieces for masking: the address "a@b.cc", "http://", "www.", "x",
\* a space, a period, an at sign
PiiChunks ==
    {<<97, 64, 98, 46, 99, 99>>, HTTP \o COLON_SLASHES, WWW, <<120>>,
     <<Space>>, <<Period>>, <<AtSign>>}

\* pieces for the artifact substitutions: a double quote, a pipe, a
\* space, and the noise phrase cut at its first space, the first word
\* capitalised as the source writes it
ArtChunks ==
    {<<Quote>>, <<Pipe>>, <<Space>>,
     <<1055>> \o SubSeq(NOISE_PHRASE, 2, 10), SubSeq(NOISE_PHRASE, 12, 37)}

\* pieces for typography and whitespace: a guillemet, a curly apostrophe,
\* an em dash, a backtick, a tab, a no-break space, a pipe, the small "a"
TypoChunks == {<<171>>, <<8217>>, <<8212>>, <<96>>, <<9>>, <<160>>, <<Pipe>>, <<1072>>}

(***************************************************************************)
(* The program: a call of preprocess(text) or of split_sentences(text)     *)
(***************************************************************************)
VARIABLES
    entry,           \* the function called: "preprocess" or "split_sentences"
    text,            \* preprocess: the parameter text, a value
    clean,           \* preprocess: the local clean
    result,          \* preprocess: the dictionary returned
    sentence_text,   \* split_sentences: the parameter text
    protected_text,  \* split_sentences: the local protected_text
    sentences_raw,   \* split_sentences: the local sentences_raw
    sentences,       \* split_sentences: the local sentences
    returned,        \* split_sentences: the list returned
    pc               \* the statement to execute next

vars ==
    <<entry, text, clean, result, sentence_text, protected_text,
      sentences_raw, sentences, returned, pc>>

NoResult == [raw |-> <<>>, clean |-> <<>>, sentences |-> <<>>]

\* a call of preprocess with a value of P, or of split_sentences with a
\* text of S
InitWith(P, S) ==
    /\ \/ /\ entry = "preprocess"
          /\ text \in P
          /\ sentence_text = <<>>
          /\ pc = "guard"
       \/ /\ entry = "split_sentences"
          /\ text = NoneValue
          /\ sentence_text \in S
          /\ pc = "split_sentences"
    /\ clean = <<>>
    /\ result = NoResult
    /\ protected_text = <<>>
    /\ sentences_raw = <<>>
    /\ sentences = <<>>
    /\ returned = <<>>

preprocess_vars == <<entry, text, sentence_text, protected_text, sentences_raw,
                     sentences, returned>>

split_vars == <<entry, text, clean, result>>

\* lines 87-92: the guard, which returns the degenerate record
Guard ==
    /\ pc = "guard"
    /\ Unusable(text)
    /\ result' = [raw |-> IF Truthy(text) THEN PyStr(text) ELSE <<>>,
                  clean |-> <<>>,
                  sentences |-> <<>>]
    /\ pc' = "done"
    /\ UNCHANGED <<clean>>
    /\ UNCHANGED preprocess_vars

\* lines 94-97: raw_text = text; clean = fix_encoding(raw_text)
FixEncoding ==
    /\ pc = "guard"
    /\ ~Unusable(text)
    /\ \E fixed \in fix_encoding(text.val) : clean' = fixed
    /\ pc' = "artifacts"
    /\ UNCHANGED <<result>>
    /\ UNCHANGED preprocess_vars

\* line 100
CleanNewsArtifacts ==
    /\ pc = "artifacts"
    /\ clean' = clean_news_artifacts(clean)
    /\ pc' = "typography"
    /\ UNCHANGED <<result>>
    /\ UNCHANGED preprocess_vars

\* line 103
NormalizeTypography ==
    /\ pc = "typography"
    /\ clean' = normalize_typography(clean)
    /\ pc' = "pipes"
    /\ UNCHANGED <<result>>
    /\ UNCHANGED preprocess_vars

\* line 106
TableArtifacts ==
    /\ pc = "pipes"
    /\ clean' = ReplacePipes(clean)
    /\ pc' = "quotes"
    /\ UNCHANGED <<result>>
    /\ UNCHANGED preprocess_vars

\* line 109
DuplicateQuotes ==
    /\ pc = "quotes"
    /\ clean' = CollapseQuotes(clean)
    /\ pc' = "noise"
    /\ UNCHANGED <<result>>
    /\ UNCHANGED preprocess_vars

\* line 112
InstagramNoise ==
    /\ pc = "noise"
    /\ clean' = RemoveNoise(clean)
    /\ pc' = "mask"
    /\ UNCHANGED <<result>>
    /\ UNCHANGED preprocess_vars

\* line 115
MaskPii ==
    /\ pc = "mask"
    /\ clean' = mask_pii(clean)
    /\ pc' = "whitespace"
    /\ UNCHANGED <<result>>
    /\ UNCHANGED preprocess_vars

\* line 118
CleanWhitespace ==
    /\ pc = "whitespace"
    /\ clean' = clean_whitespace(clean)
    /\ pc' = "call_split"
    /\ UNCHANGED <<result>>
    /\ UNCHANGED preprocess_vars

\* line 121: the call split_sentences(clean)
CallSplitSentences ==
    /\ pc = "call_split"
    /\ sentence_text' = clean
    /\ pc' = "split_sentences"
    /\ UNCHANGED <<protected_text, sentences_raw, sentences, returned>>
    /\ UNCHANGED split_vars

\* lines 52-53: if not text: return []
ReturnEmpty ==
    /\ pc = "split_sentences"
    /\ sentence_text = <<>>
    /\ returned' = <<>>
    /\ pc' = "returned"
    /\ UNCHANGED <<sentence_text, protected_text, sentences_raw, sentences>>
    /\ UNCHANGED split_vars

\* line 57
ProtectAbbreviationsStep ==
    /\ pc = "split_sentences"
    /\ sentence_text # <<>>
    /\ protected_text' = ProtectAbbreviations(sentence_text)
    /\ pc' = "decimals"
    /\ UNCHANGED <<sentence_text, sentences_raw, sentences, returned>>
    /\ UNCHANGED split_vars

\* line 60
ProtectDecimalsStep ==
    /\ pc = "decimals"
    /\ protected_text' = ProtectDecimals(protected_text)
    /\ pc' = "initials"
    /\ UNCHANGED <<sentence_text, sentences_raw, sentences, returned>>
    /\ UNCHANGED split_vars

\* line 63
ProtectInitialsStep ==
    /\ pc = "initials"
    /\ protected_text' = ProtectInitials(protected_text)
    /\ pc' = "split"
    /\ UNCHANGED <<sentence_text, sentences_raw, sentences, returned>>
    /\ UNCHANGED split_vars

\* line 66
Split ==
    /\ pc = "split"
    /\ sentences_raw' = ReSplit(protected_text)
    /\ pc' = "restore"
    /\ UNCHANGED <<sentence_text, protected_text, sentences, returned>>
    /\ UNCHANGED split_vars

\* lines 69-73
RestoreSentences ==
    /\ pc = "restore"
    /\ sentences' = RestoreAll(sentences_raw)
    /\ pc' = "fallback"
    /\ UNCHANGED <<sentence_text, protected_text, sentences_raw, returned>>
    /\ UNCHANGED split_vars

\* lines 76-77: if not sentences and text: return [text]
ReturnFallback ==
    /\ pc = "fallback"
    /\ sentences = <<>> /\ sentence_text # <<>>
    /\ returned' = <<sentence_text>>
    /\ pc' = "returned"
    /\ UNCHANGED <<sentence_text, protected_text, sentences_raw, sentences>>
    /\ UNCHANGED split_vars

\* line 79: return sentences
ReturnSentences ==
    /\ pc = "fallback"
    /\ ~(sentences = <<>> /\ sentence_text # <<>>)
    /\ returned' = sentences
    /\ pc' = "returned"
    /\ UNCHANGED <<sentence_text, protected_text, sentences_raw, sentences>>
    /\ UNCHANGED split_vars

\* lines 121-127: sentences = split_sentences(clean); return the record
ReturnRecord ==
    /\ pc = "returned"
    /\ entry = "preprocess"
    /\ result' = [raw |-> text.val, clean |-> clean, sentences |-> returned]
    /\ pc' = "done"
    /\ UNCHANGED <<clean>>
    /\ UNCHANGED preprocess_vars

Next ==
    \/ Guard
    \/ FixEncoding
    \/ CleanNewsArtifacts
    \/ NormalizeTypography
    \/ TableArtifacts
    \/ DuplicateQuotes
    \/ InstagramNoise
    \/ MaskPii
    \/ CleanWhitespace
    \/ CallSplitSentences
    \/ ReturnEmpty
    \/ ProtectAbbreviationsStep
    \/ ProtectDecimalsStep
    \/ ProtectInitialsStep
    \/ Split
    \/ RestoreSentences
    \/ ReturnFallback
    \/ ReturnSentences
    \/ ReturnRecord

\* the inputs every specification has: the examples and the degenerate
\* values, and for split_sentences the examples, the empty text and blanks
BaseValues == Degenerate \cup {StrValue(t) : t \in Examples}
BaseTexts == Examples \cup {<<>>, <<Space>>, <<Space, 9>>}

Values(chunks) == BaseValues \cup {StrValue(t) : t \in Texts(chunks, MaxChunks)}

\* sentence splitting: abbreviations, initials, boundaries
SegInit == InitWith(Values(SegChunks), BaseTexts \cup Texts(SegChunks, MaxChunks))
SegSpec == SegInit /\ [][Next]_vars

\* numbers and the sentinel
NumInit == InitWith(Values(NumChunks), BaseTexts \cup Texts(NumChunks, MaxChunks))
NumSpec == NumInit /\ [][Next]_vars

\* masking
PiiInit == InitWith(Values(PiiChunks), BaseTexts)
PiiSpec == PiiInit /\ [][Next]_vars

\* artifact substitutions
ArtInit == InitWith(Values(ArtChunks), BaseTexts)
ArtSpec == ArtInit /\ [][Next]_vars

\* typography and whitespace
TypoInit == InitWith(Values(TypoChunks), BaseTexts \cup Texts(TypoChunks, MaxChunks - 1))
TypoSpec == TypoInit /\ [][Next]_vars

\* the examples and the degenerate values alone
Init == InitWith(BaseValues, BaseTexts)
Spec == Init /\ [][Next]_vars


(***************************************************************************)
(* Notions the properties are stated with, defined from the specification  *)
(* and not from the operators above                                        *)
(***************************************************************************)
\* t without its whitespace
NonSpace(t) == SelectSeq(t, IsNonSpace)

\* the concatenation of the first k sentences
RECURSIVE Concat(_, _)
Concat(ss, k) == IF k = 0 THEN <<>> ELSE Concat(ss, k - 1) \o ss[k]

\* the sentences ss of text t have a boundary directly after index j of t:
\* some proper prefix of ss covers exactly t[1..j], whitespace aside
BoundaryAfter(t, ss, j) ==
    \E k \in 1..(Len(ss) - 1) : NonSpace(Concat(ss, k)) = NonSpace(Slice(t, 1, j))

\* t[j] is a period that follows a whole-word, case-insensitive occurrence
\* of the abbreviation token tok
TokenPeriodAt(t, j, tok) ==
    /\ At(t, j) = Period
    /\ j - Len(tok) >= 1
    /\ StartsAtCI(t, j - Len(tok), tok)
    /\ ~IsWord(At(t, j - Len(tok) - 1))

AbbrevPeriodAt(t, j) ==
    \E k \in 1..Len(UA_ABBREVIATIONS) : TokenPeriodAt(t, j, UA_ABBREVIATIONS[k])

\* t[j] is a period directly after a capital that stands as a one-letter
\* token
InitialPeriodAt(t, j) ==
    /\ At(t, j) = Period
    /\ IsUpper(At(t, j - 1))
    /\ ~IsWord(At(t, j - 2))

\* index j is followed by whitespace and then a capital, digit or quote
BoundaryContextAfter(t, j) ==
    /\ IsSpace(At(t, j + 1))
    /\ \E e \in (j + 2)..Len(t) :
          /\ \A m \in (j + 1)..(e - 1) : IsSpace(t[m])
          /\ IsSentenceStart(t[e])

\* t has a position where terminal punctuation is followed by whitespace
\* and then a capital, digit or quote
HasBoundary(t) ==
    \E j \in 1..Len(t) : IsTerminal(t[j]) /\ BoundaryContextAfter(t, j)

\* t[i..e-1] is a well-formed address: local part, @, domain, period and
\* a top-level domain of 2 to 7 letters, standing between word boundaries
EmailAt(t, i, e) ==
    /\ WordBoundary(t, i)
    /\ WordBoundary(t, e)
    /\ \E a \in (i + 1)..(e - 5) : \E d \in (a + 2)..(e - 3) :
          /\ t[a] = AtSign
          /\ \A m \in i..(a - 1) : IsEmailLocal(t[m])
          /\ \A m \in (a + 1)..(d - 1) : IsEmailDomain(t[m])
          /\ t[d] = Period
          /\ e - d - 1 \in 2..7
          /\ \A m \in (d + 1)..(e - 1) : t[m] \in (65..90) \cup (97..122)

EmailsIn(t) ==
    {ie \in (1..Len(t)) \X (1..(Len(t) + 1)) : EmailAt(t, ie[1], ie[2])}

\* t[i..e-1] is a well-formed link: http://, https://, www. or bit.ly/
\* and then everything up to the next whitespace, at least one character
UrlAt(t, i, e) ==
    /\ e <= Len(t) + 1
    /\ ~IsNonSpace(At(t, e)) \/ e = Len(t) + 1
    /\ \E lit \in {<<104, 116, 116, 112, 58, 47, 47>>,
                   <<104, 116, 116, 112, 115, 58, 47, 47>>,
                   <<119, 119, 119, 46>>,
                   <<98, 105, 116, 46, 108, 121, 47>>} :
          /\ StartsAt(t, i, lit)
          /\ e > i + Len(lit)
          /\ \A m \in i..(e - 1) : IsNonSpace(t[m])

UrlsIn(t) ==
    {ie \in (1..Len(t)) \X (1..(Len(t) + 1)) : UrlAt(t, ie[1], ie[2])}

IsTypographicGlyph(c) ==
    c \in {171, 187, 8220, 8221, 8222, 8212, 8211, 96, 8217, 8216, 700}

(***************************************************************************)
(* Properties                                                              *)
(***************************************************************************)

\* C1: for every usable input of preprocess, the returned sentences joined
\* by single spaces equal the returned clean up to whitespace: no
\* non-whitespace character is lost, added, duplicated or changed.
C1_Reconstruction ==
    (pc = "done" /\ ~Unusable(text)) =>
        NonSpace(Join(<<Space>>, result.sentences)) = NonSpace(result.clean)

\* C2: split_sentences never places a sentence boundary directly after a
\* period that follows a whole-word, case-insensitive match of an
\* abbreviation token, whatever follows the period; the token as written
\* and its period appear in the output; and the documented example gives
\* exactly its two sentences.
C2_AbbreviationNotSplit ==
    pc = "returned" =>
        /\ \A j \in 1..Len(sentence_text) :
              AbbrevPeriodAt(sentence_text, j) =>
                 /\ ~BoundaryAfter(sentence_text, returned, j)
                 /\ \A k \in 1..Len(UA_ABBREVIATIONS) :
                       TokenPeriodAt(sentence_text, j, UA_ABBREVIATIONS[k]) =>
                          \E n \in 1..Len(returned) :
                             Contains(returned[n],
                                      Slice(sentence_text,
                                            j - Len(UA_ABBREVIATIONS[k]), j))
        /\ sentence_text = EXAMPLE_ABBREVIATION =>
              returned = <<SubSeq(EXAMPLE_ABBREVIATION, 1, 31),
                           SubSeq(EXAMPLE_ABBREVIATION, 33, 41)>>

\* C2 witness: an abbreviation period followed by whitespace and a capital,
\* digit or quote, in a text that is split elsewhere.
C2_Witness ==
    /\ pc = "returned"
    /\ Len(returned) = 2
    /\ \E j \in 1..Len(sentence_text) :
          /\ AbbrevPeriodAt(sentence_text, j)
          /\ BoundaryContextAfter(sentence_text, j)

\* C3: the period after a capital that stands as a one-letter token is
\* never followed by a sentence boundary, whether or not the letter is an
\* abbreviation token; a period after a small letter that is no
\* abbreviation, followed by whitespace and a capital, digit or quote,
\* still is a boundary; and the documented example gives exactly its two
\* sentences.
C3_InitialNotSplit ==
    pc = "returned" =>
        /\ \A j \in 1..Len(sentence_text) :
              InitialPeriodAt(sentence_text, j) =>
                 ~BoundaryAfter(sentence_text, returned, j)
        /\ \A j \in 1..Len(sentence_text) :
              (/\ At(sentence_text, j) = Period
               /\ IsLowerCyr(At(sentence_text, j - 1))
               /\ ~AbbrevPeriodAt(sentence_text, j)
               /\ BoundaryContextAfter(sentence_text, j)) =>
                 BoundaryAfter(sentence_text, returned, j)
        /\ sentence_text = EXAMPLE_INITIALS =>
              returned = <<SubSeq(EXAMPLE_INITIALS, 1, 30),
                           SubSeq(EXAMPLE_INITIALS, 32, 48)>>

\* C3 witness: a capital that is no abbreviation token, its period followed
\* by whitespace and a capital, and the text returned as one sentence.
C3_Witness ==
    /\ pc = "returned"
    /\ returned = <<sentence_text>>
    /\ \E j \in 1..Len(sentence_text) :
          /\ InitialPeriodAt(sentence_text, j)
          /\ ~AbbrevPeriodAt(sentence_text, j)
          /\ BoundaryContextAfter(sentence_text, j)

\* C4: for an input that is no string, or is an empty or blank string,
\* preprocess returns clean = "", sentences = [] and raw = the textual
\* rendering of the input, raw being empty only for None and for "".
C4_DegenerateRecord ==
    (pc = "done" /\ Unusable(text)) =>
        /\ result.clean = <<>>
        /\ result.sentences = <<>>
        /\ result.raw = (IF text.kind = "NoneType" THEN <<>> ELSE PyStr(text))
        /\ result.raw = <<>> => (text.kind = "NoneType" \/ text = StrValue(<<>>))

C6_NoBlankEntries ==
    pc = "returned" =>
        \A k \in 1..Len(returned) :
           returned[k] # <<>> /\ Strip(returned[k]) = returned[k]

\* C7: for a text without a boundary position (terminal punctuation, then
\* whitespace, then a capital, digit or quote), split_sentences returns
\* exactly one element, the trimmed text.  Stated here for the texts that
\* hold a character other than whitespace.
C7_SingleSentence ==
    (/\ pc = "returned"
     /\ Strip(sentence_text) # <<>>
     /\ ~HasBoundary(sentence_text)) =>
        returned = <<Strip(sentence_text)>>

\* C8 (as stated): the three substitutions (pipe to space, quote-run
\* collapse, noise removal) give the same result in each of the six
\* orders as in the order of the code.
C8_AnyOrder ==
    pc = "pipes" =>
        LET code == RemoveNoise(CollapseQuotes(ReplacePipes(clean)))
        IN  /\ RemoveNoise(ReplacePipes(CollapseQuotes(clean))) = code
            /\ CollapseQuotes(RemoveNoise(ReplacePipes(clean))) = code
            /\ CollapseQuotes(ReplacePipes(RemoveNoise(clean))) = code
            /\ ReplacePipes(RemoveNoise(CollapseQuotes(clean))) = code
            /\ ReplacePipes(CollapseQuotes(RemoveNoise(clean))) = code

\* C8 (amended): pipe replacement and quote-run collapse are independent
\* of each other, so the order quote collapse, pipe, noise removal gives
\* the result of the code's order pipe, quote collapse, noise removal.
C8_PipeAndQuoteOrder ==
    pc = "pipes" =>
        /\ ReplacePipes(CollapseQuotes(clean)) = CollapseQuotes(ReplacePipes(clean))
        /\ RemoveNoise(ReplacePipes(CollapseQuotes(clean)))
              = RemoveNoise(CollapseQuotes(ReplacePipes(clean)))

\* C8 witness: a text with a pipe between two quotes reaches the
\* substitutions.
C8_Witness ==
    /\ pc = "pipes"
    /\ Contains(clean, <<Quote, Pipe, Quote>>)

\* C9: after the protect phase no period is left directly between two
\* digits, and the decimal step gives the same protected text before,
\* between or after the other two steps.
C9_DecimalsProtected ==
    pc = "split" =>
        /\ \A j \in 1..Len(protected_text) :
              ~(/\ IsDigit(At(protected_text, j - 1))
                /\ protected_text[j] = Period
                /\ IsDigit(At(protected_text, j + 1)))
        /\ protected_text
              = ProtectInitials(ProtectAbbreviations(ProtectDecimals(sentence_text)))
        /\ protected_text
              = ProtectDecimals(ProtectInitials(ProtectAbbreviations(sentence_text)))

\* C10: the clean that preprocess returns has no leading or trailing
\* whitespace, no whitespace but the plain space, no two adjacent spaces,
\* no typographic variant glyph and no pipe; and sentences is empty exactly
\* when clean is empty.
C10_CleanInvariant ==
    pc = "done" =>
        /\ Strip(result.clean) = result.clean
        /\ \A i \in 1..Len(result.clean) :
              /\ IsSpace(result.clean[i]) => result.clean[i] = Space
              /\ ~(result.clean[i] = Space /\ At(result.clean, i + 1) = Space)
              /\ ~IsTypographicGlyph(result.clean[i])
              /\ result.clean[i] # Pipe
        /\ (result.sentences = <<>>) <=> (result.clean = <<>>)

\* C10 witness: a usable text with leading whitespace, a typographic glyph
\* and a pipe has been processed to a clean that is not empty.
C10_Witness ==
    /\ pc = "done"
    /\ ~Unusable(text)
    /\ IsSpace(text.val[1])
    /\ \E i \in 1..Len(text.val) : IsTypographicGlyph(text.val[i])
    /\ \E i \in 1..Len(text.val) : text.val[i] = Pipe
    /\ result.clean # <<>>


====
